---- MODULE Spec2Model ----
(***************************************************************************)
(* Model of the log parsers of run_checker.py (parse_build_log and         *)
(* parse_checkstyle_log) and of the programs that write and use the logs:  *)
(* BuildChecker, CheckstyleRunner, ConfigManager, RepositoryManager,       *)
(* JavaProjectChecker.run and run_quality_check.                           *)
(*                                                                         *)
(* A transcript is a sequence of lines (each line is followed by "\n").    *)
(* A line is a record: k is the shape of its text, the other fields are    *)
(* the variable parts of the text.  Every regular expression of the source *)
(* is translated into the positions (line indices) at which it matches.    *)
(***************************************************************************)
EXTENDS Integers, Sequences, FiniteSets, TLC

VARIABLES
    build_log,        \* log_content handed to parse_build_log
    build_data,       \* value returned by parse_build_log
    style_log,        \* log_content handed to parse_checkstyle_log
    checkstyle_data,  \* value returned by parse_checkstyle_log
    returned,         \* names of the functions that have returned
    java_files,       \* the .java files found in the repository, in loop order
    javac,            \* what javac does for each file: return code and output
    log_file,         \* text of BuildChecker.log_file
    build_success,    \* value returned by check_build
    runner,           \* the CheckstyleRunner object: violations, violations_count, files_with_violations
    config_file,      \* state of the file checkstyle/sun_checks.xml
    txt_report,       \* text of CheckstyleRunner.txt_report
    checkstyle_success, \* value returned by the latest run_checkstyle
    raised,           \* exception that left the latest call, "none" if it returned
    last_call,        \* the latest method called
    calls,            \* number of calls made so far
    argv,             \* the command line and the content of the --config file
    args,             \* the namespace returned by parse_arguments
    exit_status,      \* status the process exited with, NotExited while it runs
    dirs,             \* the clone directories that exist in the workspace
    cloned,           \* the clone directories that hold a successful clone
    clone_log,        \* what each clone_repository call did, in order
    pc,               \* position of the process started through run_checker
    quality_success,  \* JavaProjectChecker.quality_success
    json_data,        \* the JSON report written by run_quality_check
    main_results,     \* results in __main__: the value returned by run_quality_check
    trace             \* the checks JavaProjectChecker.run has called, in order

parser_vars == <<build_log, build_data, style_log, checkstyle_data>>
build_vars == <<java_files, javac, log_file, build_success>>
runner_vars == <<runner, config_file, txt_report, checkstyle_success>>
call_vars == <<raised, last_call, calls>>
config_vars == <<argv, args>>
repo_vars == <<dirs, cloned, clone_log>>
run_vars == <<pc, quality_success, json_data, main_results, trace>>
program_vars ==
    <<build_vars, runner_vars, call_vars, config_vars, repo_vars, exit_status, run_vars>>

vars == <<parser_vars, returned, program_vars>>

----------------------------------------------------------------------------
(* Bounds *)

MaxBuildSegs == 4
MaxStyleLines == 5

----------------------------------------------------------------------------
(* Generic helpers *)

Min(S) == CHOOSE x \in S : \A y \in S : x <= y

\* index of the first line at or after pos whose shape is in K, 0 if none
\* (re.search / the lazy `.*?` running forward to the next literal)
FirstFrom(log, pos, K) ==
    LET I == {i \in pos..Len(log) : log[i].k \in K}
    IN  IF I = {} THEN 0 ELSE Min(I)

RECURSIVE Flatten(_)
Flatten(ss) == IF ss = <<>> THEN <<>> ELSE Head(ss) \o Flatten(Tail(ss))

SeqsUpTo(S, n) == UNION {[1..m -> S] : m \in 0..n}

\* the Python value None
None == [none |-> TRUE]

\* the text of a file that has not been written
NoFile == <<"<no file>">>

\* the program variables before any program has run
BuildIdle ==
    /\ java_files = <<>>
    /\ javac = <<>>
    /\ log_file = NoFile
    /\ build_success = FALSE

\* CheckstyleRunner.__init__, in a working directory without configuration
RunnerIdle ==
    /\ runner = [violations |-> <<>>, violations_count |-> 0,
                 files_with_violations |-> 0]
    /\ config_file = "absent"
    /\ txt_report = NoFile
    /\ checkstyle_success = FALSE

CallIdle ==
    /\ raised = "none"
    /\ last_call = "none"
    /\ calls = 0

NotExited == -1

\* before ConfigManager() has parsed anything
ConfigIdle ==
    /\ argv = None
    /\ args = None

\* an empty workspace
RepoIdle ==
    /\ dirs = {}
    /\ cloned = {}
    /\ clone_log = <<>>

\* no process has been started through run_checker
RunIdle ==
    /\ pc = "idle"
    /\ quality_success = FALSE
    /\ json_data = None
    /\ main_results = None
    /\ trace = <<>>

ProgramIdle ==
    BuildIdle /\ RunnerIdle /\ CallIdle /\ ConfigIdle /\ RepoIdle /\ RunIdle
    /\ exit_status = NotExited

\* the parser variables before any parse
ParserIdle ==
    /\ build_log = <<>>
    /\ build_data = None
    /\ style_log = <<>>
    /\ checkstyle_data = None

----------------------------------------------------------------------------
(* Build log text *)

BLine(k, f, n, msg) == [k |-> k, f |-> f, n |-> n, msg |-> msg]

FoundLine(n)      == BLine("found", "", n, "")       \* Found <n> Java files to compile:
ItemLine(f)       == BLine("item", f, 0, "")         \*   - <f>
CompilingLine(f)  == BLine("compiling", f, 0, "")    \* Compiling: <f>
RunningLine(f)    == BLine("running", f, 0, "")      \* Running: javac -encoding UTF-8 -d bin <f>
ErrLine(f, n, m)  == BLine("errline", f, n, m)       \* <f>:<n>: error: <m>
ErrNoLocLine      == BLine("errnoloc", "", 0, "")    \* error: file not found
SrcLine           == BLine("src", "", 0, "")         \*     int x = 1
CaretLine(ws)     == BLine("caret", "", ws, "")      \* <ws blanks>^
NErrLine(n)       == BLine("nerr", "", n, "")        \* <n> error
NoteLine          == BLine("note", "", 0, "")        \* Note: Some input files use unchecked operations.
ExcLine           == BLine("exc", "", 0, "")         \* java.lang.IllegalStateException
FailedLine(f)     == BLine("failed", f, 0, "")       \* ERROR Compilation failed for <f>
SuccessLine       == BLine("success", "", 0, "")     \* SUCCESS All Java files compiled successfully
HeaderLine        == BLine("header", "", 0, "")      \* === Build Log for <repo_path> ===
DateLine          == BLine("date", "", 0, "")        \* Date: <now>
NoJavaLine        == BLine("nojava", "", 0, "")      \* ERROR No Java files found in the repository
IndividualLine    == BLine("individual", "", 0, "")  \* Individual compilation failed.
BuildErrorLine    == BLine("builderror", "", 0, "")  \* ERROR Error during build check: <e>

\* the line's text contains the file name f
ContainsFile(l, f) ==
    l.f = f /\ l.k \in {"item", "compiling", "running", "errline", "failed"}

\* the line's text contains "error:"
ContainsErrorColon(l) == l.k \in {"errline", "errnoloc"}

\* "error" in text.lower() or "exception" in text.lower()
ContainsErrorWord(l) ==
    l.k \in {"errline", "errnoloc", "nerr", "exc", "failed", "nojava", "builderror"}
----------------------------------------------------------------------------
(* parse_build_log *)

\* files_count_match: the first "Found <n> Java files to compile:" line
total_files(log) ==
    LET i == FirstFrom(log, 1, {"found"})
    IN  IF i = 0 THEN 0 ELSE log[i].n

\* files_section and file_paths: the "- <path>" lines between the first
\* "Found ..." line and the first following "\nCompiling:" (or end of text);
\* every path found is appended
files(log) ==
    LET i == FirstFrom(log, 1, {"found"})
        c == IF i = 0 THEN 0 ELSE FirstFrom(log, i + 1, {"compiling"})
        e == IF c = 0 THEN Len(log) ELSE c - 1
    IN  IF i = 0 THEN <<>>
        ELSE SelectSeq(SubSeq(log, i + 1, e), LAMBDA l : l.k = "item")

\* `$` compiled with re.MULTILINE matches at the end of every line
DollarMultiline(log, e) == e \in 1..Len(log)

\* `$` compiled without re.MULTILINE matches only at the end of the text
DollarEndOfText(log, e) == e = Len(log)

\* the lookahead (?=Compiling:|$|ERROR Compilation failed) of
\* compilation_sections, tried at the end of line e
SectionLookahead(log, e) ==
    \/ DollarMultiline(log, e)
    \/ e < Len(log) /\ log[e + 1].k \in {"compiling", "failed"}

\* last line of the lazy third group (.*?) that starts after Running line j
OutputEnd(log, j) == Min({e \in j..Len(log) : SectionLookahead(log, e)})

\* re.findall of compilation_sections, scanning from line pos
RECURSIVE compilation_sections(_, _)
compilation_sections(log, pos) ==
    LET i == FirstFrom(log, pos, {"compiling"})
        j == IF i = 0 THEN 0 ELSE FirstFrom(log, i + 1, {"running"})
    IN  IF j = 0 THEN <<>>
        ELSE LET e == OutputEnd(log, j)
             IN  <<[file |-> log[i].f, command |-> log[j].f,
                    output |-> SubSeq(log, j + 1, e)]>>
                 \o compilation_sections(log, e + 1)

\* is_success of one section
is_success(section) == \A x \in 1..Len(section.output) : ~ContainsErrorWord(section.output[x])

\* the loop over compilation_sections: one file_results entry per section
RECURSIVE file_results(_)
file_results(sections) ==
    IF sections = <<>> THEN <<>>
    ELSE LET section == Head(sections)
         IN  <<[file |-> section.file,
                success |-> is_success(section),
                output |-> IF is_success(section) THEN <<>> ELSE section.output]>>
             \o file_results(Tail(sections))

\* the loop over compilation_sections: one commands entry per section
RECURSIVE commands(_)
commands(sections) ==
    IF sections = <<>> THEN <<>>
    ELSE <<[file |-> Head(sections).file, command |-> Head(sections).command]>>
         \o commands(Tail(sections))

\* successful_compilations after the loop
RECURSIVE successful_compilations(_)
successful_compilations(sections) ==
    IF sections = <<>> THEN 0
    ELSE (IF is_success(Head(sections)) THEN 1 ELSE 0)
         + successful_compilations(Tail(sections))

\* failed_compilation: the file names of the failure banners, in order
failed_compilation(log) ==
    LET banners == SelectSeq(log, LAMBDA l : l.k = "failed")
    IN  [i \in 1..Len(banners) |-> banners[i].f]

\* the lookahead (?=Compiling:|$|ERROR Compilation failed) of error_section
\* (compiled with re.DOTALL only), tried at the end of line t
ErrorSectionLookahead(log, t) ==
    \/ DollarEndOfText(log, t)
    \/ t < Len(log) /\ log[t + 1].k \in {"compiling", "failed"}

\* error_section for failed_file: <<first, last>> line of the match of
\* (failed_file.*?error:.*?)(?=Compiling:|$|ERROR Compilation failed),
\* <<0, 0>> when the search fails
error_section(log, failed_file) ==
    LET S == {s \in 1..Len(log) : ContainsFile(log[s], failed_file)}
        s == IF S = {} THEN 0 ELSE Min(S)
        E == IF s = 0 THEN {}
             ELSE {e \in s..Len(log) :
                     /\ ContainsErrorColon(log[e])
                     /\ e = s => log[s].k = "errline"}
        e == IF E = {} THEN 0 ELSE Min(E)
    IN  IF e = 0 THEN <<0, 0>>
        ELSE <<s, Min({t \in e..Len(log) : ErrorSectionLookahead(log, t)})>>

\* column recovered from the first caret line of text (0: no caret line)
pointer_column(text) ==
    LET p == FirstFrom(text, 1, {"caret"})
    IN  IF p = 0 THEN 0 ELSE text[p].n + 1

\* error_count_match: the first "<n> error" of text (-1: absent)
error_count_of(text) ==
    LET p == FirstFrom(text, 1, {"nerr"})
    IN  IF p = 0 THEN -1 ELSE text[p].n

\* the error detail built for one failed file whose error_section matched
error_detail(log, failed_file, sec) ==
    LET error_text == SubSeq(log, sec[1], sec[2])
        m == FirstFrom(error_text, 1, {"errline"})
    IN  IF m # 0
        THEN [file |-> error_text[m].f, line |-> error_text[m].n,
              message |-> error_text[m].msg,
              column |-> pointer_column(error_text),
              error_count |-> error_count_of(error_text)]
        ELSE [file |-> failed_file, line |-> -1,
              message |-> "Compilation failed",
              column |-> 0, error_count |-> -1]

\* errors after one iteration of the loop over failed_compilation
AddFailedFile(errors, log, failed_file) ==
    LET sec == error_section(log, failed_file)
    IN  IF sec[1] # 0
        THEN [count |-> errors.count + 1,
              details |-> Append(errors.details, error_detail(log, failed_file, sec))]
        ELSE errors

\* the loop over failed_compilation
RECURSIVE per_file_pass(_, _, _)
per_file_pass(errors, log, failed) ==
    IF failed = <<>> THEN errors
    ELSE per_file_pass(AddFailedFile(errors, log, Head(failed)), log, Tail(failed))

\* the error detail of the global pass for the error line at index i
global_detail(log, i) ==
    LET found == Min({p \in 1..Len(log) : log[p].k = "errline" /\ log[p].msg = log[i].msg})
        context_section == SubSeq(log, found + 1, Len(log))
    IN  [file |-> log[i].f, line |-> log[i].n, message |-> log[i].msg,
         column |-> pointer_column(context_section), error_count |-> -1]

\* AddGlobalError with the `count += 1` of the global pass left out
AddGlobalError_NoCount(errors, log, i) ==
    [count |-> errors.count,
     details |-> Append(errors.details, global_detail(log, i))]

\* errors after one iteration of the loop over all_errors
AddGlobalError(errors, log, i) ==
    [count |-> errors.count + 1,
     details |-> Append(errors.details, global_detail(log, i))]

\* the loop over all_errors, scanning from line pos
RECURSIVE global_pass(_, _, _)
global_pass(errors, log, pos) ==
    LET i == FirstFrom(log, pos, {"errline"})
    IN  IF i = 0 THEN errors
        ELSE global_pass(AddGlobalError(errors, log, i), log, i + 1)

\* "Compilation failed" in log_content
HasCompilationFailed(log) == \E i \in 1..Len(log) : log[i].k = "failed"

\* "All Java files compiled successfully" in log_content
HasSuccessBanner(log) == \E i \in 1..Len(log) : log[i].k = "success"

\* errors after both passes
build_errors(log) ==
    LET first == per_file_pass([count |-> 0, details |-> <<>>], log, failed_compilation(log))
    IN  IF first.count = 0 /\ HasCompilationFailed(log)
        THEN global_pass(first, log, 1)
        ELSE first

\* success_rate without the multiplication by 100
success_rate_NoPercent(log) ==
    IF total_files(log) > 0
    THEN [num |-> successful_compilations(compilation_sections(log, 1)),
          den |-> total_files(log)]
    ELSE [num |-> 0, den |-> 1]

\* summary.success_rate, kept as the fraction num/den
success_rate(log) ==
    IF total_files(log) > 0
    THEN [num |-> successful_compilations(compilation_sections(log, 1)) * 100,
          den |-> total_files(log)]
    ELSE [num |-> 0, den |-> 1]

\* "Compilation failed for" in log_content
HasFailureBanner(log) == \E i \in 1..Len(log) : log[i].k = "failed"

\* build_status with the two banner tests in the opposite order
build_status_FailedFirst(log) ==
    IF HasFailureBanner(log) THEN "FAILED"
    ELSE IF HasSuccessBanner(log) THEN "SUCCESS"
    ELSE "None"

\* summary.status
build_status(log) ==
    IF HasSuccessBanner(log) THEN "SUCCESS"
    ELSE IF HasFailureBanner(log) THEN "FAILED"
    ELSE "None"

\* the characters of a file name, split at the parentheses, as re reads them
\* when the name is interpolated into the pattern of error_section
PatternChars(f) ==
    IF f = "D(.java" THEN <<"D", "(", ".java">> ELSE <<f>>

\* nesting depth of the groups opened by chars, -1 once a ")" closes nothing
RECURSIVE GroupDepth(_)
GroupDepth(chars) ==
    IF chars = <<>> THEN 0
    ELSE LET d == GroupDepth(SubSeq(chars, 1, Len(chars) - 1))
             c == chars[Len(chars)]
         IN  IF d < 0 THEN -1
             ELSE IF c = "(" THEN d + 1
             ELSE IF c = ")" THEN d - 1
             ELSE d

\* re.search(f"({failed_file}.*?error:.*?)(?=...)", ...) compiles its pattern
re_compiles(failed_file) == GroupDepth(PatternChars(failed_file)) = 0

\* the loop over failed_compilation reaches a failed_file whose pattern
\* does not compile: re.error propagates out of parse_build_log
raises_re_error(log) ==
    \E x \in 1..Len(failed_compilation(log)) :
        ~re_compiles(failed_compilation(log)[x])

\* the outcome of a call that raised re.error
ReError == [none |-> FALSE, raised |-> "re.error"]

\* the value returned by parse_build_log(log)
parse_build_log(log) ==
    IF log = <<>> THEN None
    ELSE IF raises_re_error(log) THEN ReError
    ELSE LET errors == build_errors(log)
             sections == compilation_sections(log, 1)
         IN  [none |-> FALSE,
              project_structure |-> [total_files |-> total_files(log),
                                     files |-> files(log)],
              compilation |-> [commands |-> commands(sections),
                               file_results |-> file_results(sections)],
              errors |-> errors,
              summary |-> [status |-> build_status(log),
                           success_rate |-> success_rate(log),
                           error_count |-> errors.count]]
----------------------------------------------------------------------------
(* Build transcripts handed to parse_build_log: up to MaxBuildSegs pieces  *)
(* of build-log text, in any order                                         *)

BuildSegs ==
    { <<FoundLine(0)>>,
      <<FoundLine(1), ItemLine("A.java")>>,
      <<FoundLine(2), ItemLine("A.java"), ItemLine("B.java")>>,
      <<CompilingLine("A.java"), RunningLine("A.java")>>,
      <<CompilingLine("B.java"), RunningLine("B.java")>>,
      <<ErrLine("A.java", 5, "m1"), SrcLine, CaretLine(3), NErrLine(1)>>,
      <<ErrLine("B.java", 7, "m2"), SrcLine, CaretLine(1)>>,
      <<ErrNoLocLine>>,
      <<NoteLine>>,
      <<ExcLine>>,
      <<FailedLine("A.java")>>,
      <<FailedLine("B.java")>>,
      <<SuccessLine>> }

BuildLogs == {Flatten(ss) : ss \in SeqsUpTo(BuildSegs, MaxBuildSegs)}

InitBuild ==
    /\ build_log \in BuildLogs
    /\ build_data = None
    /\ style_log = <<>>
    /\ checkstyle_data = None
    /\ returned = {}
    /\ ProgramIdle

\* one call parse_build_log(build_log)
ParseBuildLog ==
    /\ "parse_build_log" \notin returned
    /\ "re.error" \notin returned
    /\ build_data' = parse_build_log(build_log)
    /\ returned' = returned \cup {IF build_log # <<>> /\ raises_re_error(build_log)
                                 THEN "re.error" ELSE "parse_build_log"}
    /\ UNCHANGED <<build_log, style_log, checkstyle_data, program_vars>>

NextBuild == ParseBuildLog

SpecBuild == InitBuild /\ [][NextBuild]_vars

BuildReturned == "parse_build_log" \in returned /\ build_log # <<>>

\* Build transcripts with a Compiling: marker that has no Running: line,
\* two errors with the same message, and failure banners that name a file
\* mentioned nowhere else
BuildErrSegs ==
    { <<CompilingLine("A.java")>>,
      <<CompilingLine("B.java"), RunningLine("B.java")>>,
      <<ErrLine("A.java", 5, "m1"), SrcLine, CaretLine(3)>>,
      <<ErrLine("B.java", 7, "m1"), SrcLine, CaretLine(1)>>,
      <<FailedLine("A.java")>>,
      <<FailedLine("C.java")>>,
      <<FailedLine("D(.java")>> }

BuildErrLogs == {Flatten(ss) : ss \in SeqsUpTo(BuildErrSegs, MaxBuildSegs)}

InitBuildErr ==
    /\ build_log \in BuildErrLogs
    /\ build_data = None
    /\ style_log = <<>>
    /\ checkstyle_data = None
    /\ returned = {}
    /\ ProgramIdle

NextBuildErr == ParseBuildLog

SpecBuildErr == InitBuildErr /\ [][NextBuildErr]_vars
----------------------------------------------------------------------------
(* BuildChecker.check_build.  The repository keeps its sources at its top  *)
(* level, so a file's relative path is its name; blank lines of the log    *)
(* are left out.                                                           *)

MaxJavaFiles == 3

JavaFileNames == {"A.java", "B.java", "C.java"}

\* what subprocess.run(["javac", ...]) can do for file f: a CompletedProcess
\* with its returncode and its stdout + stderr, or an exception (raised)
JavacResults(f) ==
    { [raised |-> FALSE, returncode |-> 0, output |-> <<>>],
      [raised |-> FALSE, returncode |-> 0, output |-> <<NoteLine>>],
      [raised |-> FALSE, returncode |-> 1,
       output |-> <<ErrLine(f, 5, "m1"), SrcLine, CaretLine(3), NErrLine(1)>>],
      [raised |-> TRUE, returncode |-> 0, output |-> <<>>] }

\* the "  - <rel_path>" lines written for java_files
RECURSIVE file_listing(_)
file_listing(fs) ==
    IF fs = <<>> THEN <<>> ELSE <<ItemLine(Head(fs))>> \o file_listing(Tail(fs))

\* the compile loop without its break
RECURSIVE compile_loop_NoBreak(_, _, _)
compile_loop_NoBreak(fs, results, i) ==
    IF i > Len(fs) THEN [log |-> <<>>, success |-> TRUE, raised |-> FALSE]
    ELSE LET f == fs[i]
             result == results[f]
             started == <<CompilingLine(f), RunningLine(f)>>
             rest == compile_loop_NoBreak(fs, results, i + 1)
         IN  IF result.raised
             THEN [log |-> started, success |-> TRUE, raised |-> TRUE]
             ELSE IF result.returncode # 0
             THEN [log |-> started \o result.output \o <<FailedLine(f)>> \o rest.log,
                   success |-> FALSE, raised |-> rest.raised]
             ELSE [log |-> started \o result.output \o rest.log,
                   success |-> rest.success, raised |-> rest.raised]

\* "for java_file in java_files:" from file i on: the text written, the
\* value of success after the loop, and whether an exception left the loop
RECURSIVE compile_loop(_, _, _)
compile_loop(fs, results, i) ==
    IF i > Len(fs) THEN [log |-> <<>>, success |-> TRUE, raised |-> FALSE]
    ELSE LET f == fs[i]
             result == results[f]
             started == <<CompilingLine(f), RunningLine(f)>>
         IN  IF result.raised
             THEN [log |-> started, success |-> TRUE, raised |-> TRUE]
             ELSE IF result.returncode # 0
             THEN [log |-> started \o result.output \o <<FailedLine(f)>>,
                   success |-> FALSE, raised |-> FALSE]
             ELSE LET rest == compile_loop(fs, results, i + 1)
                  IN  [log |-> started \o result.output \o rest.log,
                       success |-> rest.success, raised |-> rest.raised]

\* check_build(): the text left in log_file and the value returned
check_build(fs, results) ==
    LET header == <<HeaderLine, DateLine>>
        found == <<FoundLine(Len(fs))>> \o file_listing(fs)
        loop == compile_loop(fs, results, 1)
    IN  IF fs = <<>>
        THEN [log |-> header \o <<NoJavaLine>>, ret |-> FALSE]
        ELSE IF loop.raised
        THEN [log |-> header \o found \o loop.log \o <<BuildErrorLine>>, ret |-> FALSE]
        ELSE IF loop.success
        THEN [log |-> header \o found \o loop.log \o <<SuccessLine>>, ret |-> TRUE]
        ELSE [log |-> header \o found \o loop.log \o <<IndividualLine>>, ret |-> FALSE]

\* list(set(java_files)): sequences of distinct file names
FileLists(n) ==
    {fs \in SeqsUpTo(JavaFileNames, n) :
        \A x, y \in 1..Len(fs) : x # y => fs[x] # fs[y]}

JavacBehaviours ==
    {r \in [JavaFileNames -> UNION {JavacResults(f) : f \in JavaFileNames}] :
        \A f \in JavaFileNames : r[f] \in JavacResults(f)}

InitCheckBuild ==
    /\ ParserIdle
    /\ RunnerIdle
    /\ CallIdle
    /\ ConfigIdle
    /\ RepoIdle
    /\ exit_status = NotExited
    /\ RunIdle
    /\ returned = {}
    /\ java_files \in FileLists(MaxJavaFiles)
    /\ javac \in JavacBehaviours
    /\ log_file = NoFile
    /\ build_success = FALSE

\* one call check_build()
CheckBuild ==
    /\ "check_build" \notin returned
    /\ log_file' = check_build(java_files, javac).log
    /\ build_success' = check_build(java_files, javac).ret
    /\ returned' = returned \cup {"check_build"}
    /\ UNCHANGED <<parser_vars, java_files, javac, runner_vars, call_vars,
                   config_vars, repo_vars, exit_status, run_vars>>

NextCheckBuild == CheckBuild

SpecCheckBuild == InitCheckBuild /\ [][NextCheckBuild]_vars
----------------------------------------------------------------------------
(* Style report text.  The text that follows "[ERROR] " on a line is a     *)
(* sequence of tokens: ":", " ", "[", "]", a decimal digit, or a word      *)
(* (a run of other characters).                                            *)

SLine(k, f, n, m, txt) == [k |-> k, f |-> f, n |-> n, m |-> m, txt |-> txt]

FileMarker(f)   == SLine("file", f, 0, 0, <<>>)       \* --- File: <f> ---
ErrorLine(txt)  == SLine("error", "", 0, 0, txt)      \* [ERROR] <txt>
BareErrorLine   == SLine("errbare", "", 0, 0, <<>>)   \* [ERROR]<no blank after the marker>
SummaryBanner   == SLine("summary", "", 0, 0, <<>>)   \* === Summary ===
NoErrorsLine    == SLine("noerrors", "", 0, 0, <<>>)  \* No Checkstyle errors found.
TotalLine(n, m) == SLine("total", "", n, m, <<>>)     \* Total: <n> style violations in <m> files
ConfigLine(txt) == SLine("config", "", 0, 0, txt)     \* Configuration: <txt>
ReportHeader    == SLine("header", "", 0, 0, <<>>)    \* === Checkstyle Report for <repo_path> ===
ReportDate      == SLine("date", "", 0, 0, <<>>)      \* Date: <now>
AuditLine       == SLine("audit", "", 0, 0, <<>>)     \* Starting audit... / Audit done.
EndsLine(n)     == SLine("ends", "", n, 0, <<>>)      \* Checkstyle ends with <n> errors.
WarnLine(txt)   == SLine("warn", "", 0, 0, txt)       \* [WARN] <txt>
ExceptionLine   == SLine("exception", "", 0, 0, <<>>) \* ...CheckstyleException: <cause>

DigitTokens == <<"0", "1", "2", "3", "4", "5", "6", "7", "8", "9">>

IsDigit(c) == \E d \in 1..10 : DigitTokens[d] = c

DigitVal(c) == (CHOOSE d \in 1..10 : DigitTokens[d] = c) - 1

\* int() of a run of digit tokens
RECURSIVE IntOf(_)
IntOf(ds) ==
    IF ds = <<>> THEN 0
    ELSE IntOf(SubSeq(ds, 1, Len(ds) - 1)) * 10 + DigitVal(ds[Len(ds)])

\* str.strip() on a token sequence
RECURSIVE Strip(_)
Strip(t) ==
    IF t = <<>> THEN <<>>
    ELSE IF Head(t) = " " THEN Strip(Tail(t))
    ELSE IF t[Len(t)] = " " THEN Strip(SubSeq(t, 1, Len(t) - 1))
    ELSE t

\* the key is absent from the dict
Missing == <<"<missing>">>
NoInt == -1

\* last index of the greedy \d+ that starts at index i, 0 if t[i] is no digit
DigitsEnd(t, i) ==
    IF i > Len(t) \/ ~IsDigit(t[i]) THEN 0
    ELSE Min({j \in i..Len(t) : j = Len(t) \/ ~IsDigit(t[j + 1])})

\* the literal ": " at indices i, i+1
ColonBlankAt(t, i) == i + 1 <= Len(t) /\ t[i] = ":" /\ t[i + 1] = " "

\* `:(\d+): ` matches at index i; the value is the index after the match
\* (0: no match)
LineTagAt(t, i) ==
    IF i <= Len(t) /\ t[i] = ":" /\ DigitsEnd(t, i + 1) # 0
          /\ ColonBlankAt(t, DigitsEnd(t, i + 1) + 1)
    THEN DigitsEnd(t, i + 1) + 3
    ELSE 0

\* `:(\d+):(\d+): ` matches at index i; the value is the index after the
\* match (0: no match)
LineColTagAt(t, i) ==
    IF i <= Len(t) /\ t[i] = ":" /\ DigitsEnd(t, i + 1) # 0
          /\ DigitsEnd(t, i + 1) + 1 <= Len(t)
          /\ t[DigitsEnd(t, i + 1) + 1] = ":"
          /\ DigitsEnd(t, DigitsEnd(t, i + 1) + 2) # 0
          /\ ColonBlankAt(t, DigitsEnd(t, DigitsEnd(t, i + 1) + 2) + 1)
    THEN DigitsEnd(t, DigitsEnd(t, i + 1) + 2) + 3
    ELSE 0

\* `(.*?) \[(.*?)\]` from index g: <<a, b>> with t[a] = " ", t[a+1] = "["
\* and t[b] = "]", both lazy groups as short as possible; <<0, 0>>: no match
RuleTagFrom(t, g) ==
    LET A == {a \in g..Len(t) - 1 :
                /\ t[a] = " " /\ t[a + 1] = "["
                /\ \E b \in a + 2..Len(t) : t[b] = "]"}
    IN  IF g = 0 \/ A = {} THEN <<0, 0>>
        ELSE LET a == Min(A)
             IN  <<a, Min({b \in a + 2..Len(t) : t[b] = "]"})>>

\* pattern1 = re.match(r"(.*?):(\d+): (.*?) \[(.*?)\]", error_line):
\* the index of the ":" that ends the lazy first group, 0 if no match
pattern1(t) ==
    LET I == {i \in 1..Len(t) : RuleTagFrom(t, LineTagAt(t, i))[1] # 0}
    IN  IF I = {} THEN 0 ELSE Min(I)

\* pattern2 = re.match(r"(.*?):(\d+):(\d+): (.*?) \[(.*?)\]", error_line)
pattern2(t) ==
    LET I == {i \in 1..Len(t) : RuleTagFrom(t, LineColTagAt(t, i))[1] # 0}
    IN  IF I = {} THEN 0 ELSE Min(I)

\* pattern3 = re.match(r"(.*?):(\d+): (.*?)$", error_line)
pattern3(t) ==
    LET I == {i \in 1..Len(t) : LineTagAt(t, i) # 0}
    IN  IF I = {} THEN 0 ELSE Min(I)

\* the violation built in the `if pattern1:` branch
violation1(t) ==
    LET i == pattern1(t)
        g == LineTagAt(t, i)
        r == RuleTagFrom(t, g)
    IN  [file |-> Strip(SubSeq(t, 1, i - 1)),
         line |-> IntOf(SubSeq(t, i + 1, g - 3)),
         column |-> NoInt,
         message |-> Strip(SubSeq(t, g, r[1] - 1)),
         rule |-> Strip(SubSeq(t, r[1] + 2, r[2] - 1)),
         raw_message |-> t]

\* the violation built in the `elif pattern2:` branch
violation2(t) ==
    LET i == pattern2(t)
        g == LineColTagAt(t, i)
        e1 == DigitsEnd(t, i + 1)
        r == RuleTagFrom(t, g)
    IN  [file |-> Strip(SubSeq(t, 1, i - 1)),
         line |-> IntOf(SubSeq(t, i + 1, e1)),
         column |-> IntOf(SubSeq(t, e1 + 2, g - 3)),
         message |-> Strip(SubSeq(t, g, r[1] - 1)),
         rule |-> Strip(SubSeq(t, r[1] + 2, r[2] - 1)),
         raw_message |-> t]

\* rule_match = re.search(r"\[(.*?)\]$", message): index of its "[", 0 if none
rule_match(message) ==
    LET P == {p \in 1..Len(message) - 1 : message[p] = "["}
    IN  IF message # <<>> /\ message[Len(message)] = "]" /\ P # {}
        THEN Min(P) ELSE 0

\* the violation built in the `elif pattern3:` branch
violation3(t) ==
    LET i == pattern3(t)
        g == LineTagAt(t, i)
        message == Strip(SubSeq(t, g, Len(t)))
        p == rule_match(message)
    IN  [file |-> Strip(SubSeq(t, 1, i - 1)),
         line |-> IntOf(SubSeq(t, i + 1, g - 3)),
         column |-> NoInt,
         message |-> IF p # 0 THEN Strip(SubSeq(message, 1, p - 1)) ELSE message,
         rule |-> IF p # 0 THEN SubSeq(message, p + 1, Len(message) - 1)
                  ELSE <<"Unknown">>,
         raw_message |-> t]

\* the violation built in the final `else:` branch
violation_unmatched(file_name, t) ==
    [file |-> file_name, line |-> NoInt, column |-> NoInt,
     message |-> t, rule |-> Missing, raw_message |-> t]

\* the if/elif chain over pattern1, pattern2, pattern3
MatchedBranch(t) ==
    IF pattern1(t) # 0 THEN 1
    ELSE IF pattern2(t) # 0 THEN 2
    ELSE IF pattern3(t) # 0 THEN 3
    ELSE 0

\* AddViolation with the `count += 1` of the final `else:` branch left out
AddViolation_NoCountUnmatched(violations, file_name, t) ==
    LET b == MatchedBranch(t)
        violation == IF b = 1 THEN violation1(t)
                     ELSE IF b = 2 THEN violation2(t)
                     ELSE IF b = 3 THEN violation3(t)
                     ELSE violation_unmatched(file_name, t)
    IN  [count |-> IF b = 0 THEN violations.count ELSE violations.count + 1,
         details |-> Append(violations.details, violation)]

\* violations after one iteration of the loop over error_lines
AddViolation(violations, file_name, t) ==
    LET b == MatchedBranch(t)
        violation == IF b = 1 THEN violation1(t)
                     ELSE IF b = 2 THEN violation2(t)
                     ELSE IF b = 3 THEN violation3(t)
                     ELSE violation_unmatched(file_name, t)
    IN  [count |-> violations.count + 1,
         details |-> Append(violations.details, violation)]
----------------------------------------------------------------------------
(* parse_checkstyle_log *)

\* str.rstrip() on a token sequence
RECURSIVE RStrip(_)
RStrip(t) ==
    IF t # <<>> /\ t[Len(t)] = " " THEN RStrip(SubSeq(t, 1, Len(t) - 1)) ELSE t

\* error_lines = re.findall(r"\[ERROR\] (.*?)$", file_content, re.MULTILINE)
\* where file_content is the block text after strip(): the texts captured
\* from the block's lines, in order
RECURSIVE error_lines(_, _)
error_lines(content, x) ==
    IF x > Len(content) THEN <<>>
    ELSE LET txt == IF x = Len(content) THEN RStrip(content[x].txt)
                    ELSE content[x].txt
             captured == /\ content[x].k = "error"
                         /\ ~(x = Len(content) /\ txt = <<>>)
         IN  (IF captured THEN <<txt>> ELSE <<>>) \o error_lines(content, x + 1)

\* the loop over error_lines of one section
RECURSIVE AddViolations(_, _, _)
AddViolations(violations, file_name, lines) ==
    IF lines = <<>> THEN violations
    ELSE AddViolations(AddViolation(violations, file_name, Head(lines)),
                       file_name, Tail(lines))

\* file_sections = re.findall(r"--- File: (.*?) ---\n(.*?)(?=--- File:|=== Summary ===)",
\* log_content, re.DOTALL), scanning from line pos: <<file, content>> pairs
RECURSIVE file_sections(_, _)
file_sections(log, pos) ==
    LET i == FirstFrom(log, pos, {"file"})
        e == IF i = 0 THEN 0 ELSE FirstFrom(log, i + 1, {"file", "summary"})
    IN  IF e = 0 THEN <<>>
        ELSE <<[file_name |-> <<log[i].f>>, file_content |-> SubSeq(log, i + 1, e - 1)]>>
             \o file_sections(log, e)

\* analysis.files_checked: one entry appended per section
RECURSIVE files_checked(_)
files_checked(sections) ==
    IF sections = <<>> THEN <<>>
    ELSE <<Head(sections).file_name>> \o files_checked(Tail(sections))

\* the loop over file_sections
RECURSIVE style_violations(_, _)
style_violations(violations, sections) ==
    IF sections = <<>> THEN violations
    ELSE style_violations(
             AddViolations(violations, Head(sections).file_name,
                           error_lines(Head(sections).file_content, 1)),
             Tail(sections))

\* files_with_violations: the set of the `file` values of the details
files_with_violations(details) == {details[x].file : x \in 1..Len(details)}

\* the aggregate recomputed from the collected violations
computed_summary(violations) ==
    [status |-> IF violations.count > 0 THEN "ISSUES FOUND" ELSE "PASSED",
     total_violations |-> violations.count,
     files_with_violations_count |->
         Cardinality(files_with_violations(violations.details))]

\* style_summary that recomputes the aggregate when the Summary section
\* holds a "Total:" banner
style_summary_Recomputed(log, violations) ==
    LET u == FirstFrom(log, 1, {"summary"})
        summary_text == SubSeq(log, u + 1, Len(log))
    IN  IF u # 0
        THEN IF FirstFrom(summary_text, 1, {"noerrors"}) # 0
             THEN [status |-> "PASSED", total_violations |-> 0,
                   files_with_violations_count |-> 0]
             ELSE IF FirstFrom(summary_text, 1, {"total"}) # 0
             THEN computed_summary(violations)
             ELSE [status |-> "None", total_violations |-> 0,
                   files_with_violations_count |-> 0]
        ELSE computed_summary(violations)

\* style_summary that looks for the "Total:" banner before it looks for
\* "No Checkstyle errors found"
style_summary_TotalFirst(log, violations) ==
    LET u == FirstFrom(log, 1, {"summary"})
        summary_text == SubSeq(log, u + 1, Len(log))
        v == FirstFrom(summary_text, 1, {"total"})
    IN  IF u # 0
        THEN IF v # 0
             THEN [status |-> "ISSUES FOUND",
                   total_violations |-> summary_text[v].n,
                   files_with_violations_count |-> summary_text[v].m]
             ELSE IF FirstFrom(summary_text, 1, {"noerrors"}) # 0
             THEN [status |-> "PASSED", total_violations |-> 0,
                   files_with_violations_count |-> 0]
             ELSE [status |-> "None", total_violations |-> 0,
                   files_with_violations_count |-> 0]
        ELSE computed_summary(violations)

\* the summary record after the "Extract summary information" step
style_summary(log, violations) ==
    LET u == FirstFrom(log, 1, {"summary"})
        summary_text == SubSeq(log, u + 1, Len(log))
        v == FirstFrom(summary_text, 1, {"total"})
    IN  IF u # 0
        THEN IF FirstFrom(summary_text, 1, {"noerrors"}) # 0
             THEN [status |-> "PASSED", total_violations |-> 0,
                   files_with_violations_count |-> 0]
             ELSE IF v # 0
             THEN [status |-> "ISSUES FOUND",
                   total_violations |-> summary_text[v].n,
                   files_with_violations_count |-> summary_text[v].m]
             ELSE [status |-> "None", total_violations |-> 0,
                   files_with_violations_count |-> 0]
        ELSE computed_summary(violations)

\* str.lower() on one token of a path
LowerToken(w) ==
    CASE w = "SUN_CHECKS" -> "sun_checks"
      [] w = "Google_Checks" -> "google_checks"
      [] OTHER -> w

\* config_path.lower()
Lower(path) == [x \in 1..Len(path) |-> LowerToken(path[x])]

\* "<word>" in <path>
Contains(path, word) == \E x \in 1..Len(path) : path[x] = word

\* the if/elif/else on config_path.lower(), google_checks tested first
ruleset_GoogleFirst(config_path) ==
    IF Contains(Lower(config_path), "google_checks") THEN "Google Style"
    ELSE IF Contains(Lower(config_path), "sun_checks") THEN "Sun Style"
    ELSE "Custom"

\* the if/elif/else on config_path.lower()
ruleset(config_path) ==
    IF Contains(Lower(config_path), "sun_checks") THEN "Sun Style"
    ELSE IF Contains(Lower(config_path), "google_checks") THEN "Google Style"
    ELSE "Custom"

\* config_match = re.search(r"Configuration: (.*?)$", log_content, re.MULTILINE)
\* and the configuration record filled from it
configuration(log) ==
    LET c == FirstFrom(log, 1, {"config"})
    IN  IF c = 0 THEN [ruleset |-> "None", path |-> Missing]
        ELSE LET config_path == Strip(log[c].txt)
             IN  [ruleset |-> ruleset(config_path), path |-> config_path]

\* the value returned by parse_checkstyle_log(log)
parse_checkstyle_log(log) ==
    IF log = <<>> THEN None
    ELSE LET sections == file_sections(log, 1)
             violations == style_violations([count |-> 0, details |-> <<>>], sections)
         IN  [none |-> FALSE,
              configuration |-> configuration(log),
              analysis |-> [total_files_checked |-> Len(sections),
                            files_checked |-> files_checked(sections)],
              violations |-> violations,
              summary |-> style_summary(log, violations)]

----------------------------------------------------------------------------
(* Style transcripts handed to parse_checkstyle_log: up to MaxStyleLines   *)
(* lines, in any order                                                     *)

\* A.java:3: msg [Rule]
TextLineRule == <<"A.java", ":", "3", ":", " ", "msg", " ", "[", "Rule", "]">>
\* A.java:3:5: msg [Rule]
TextLineColRule == <<"A.java", ":", "3", ":", "5", ":", " ", "msg", " ", "[", "Rule", "]">>
\* A.java:4: msg
TextLineOnly == <<"A.java", ":", "4", ":", " ", "msg">>
\* Checkstyle ends with 1 errors.
TextFree == <<"Checkstyle", " ", "ends">>

StyleLines ==
    { FileMarker("A.java"), FileMarker("B.java"),
      ErrorLine(TextLineRule), ErrorLine(TextLineColRule),
      ErrorLine(TextLineOnly), ErrorLine(TextFree), BareErrorLine,
      SummaryBanner, NoErrorsLine, TotalLine(5, 3) }

StyleLogs == SeqsUpTo(StyleLines, MaxStyleLines)

InitStyle ==
    /\ style_log \in StyleLogs
    /\ checkstyle_data = None
    /\ build_log = <<>>
    /\ build_data = None
    /\ returned = {}
    /\ ProgramIdle

\* one call parse_checkstyle_log(style_log)
ParseCheckstyleLog ==
    /\ "parse_checkstyle_log" \notin returned
    /\ checkstyle_data' = parse_checkstyle_log(style_log)
    /\ returned' = returned \cup {"parse_checkstyle_log"}
    /\ UNCHANGED <<build_log, build_data, style_log, program_vars>>

NextStyle == ParseCheckstyleLog

SpecStyle == InitStyle /\ [][NextStyle]_vars

StyleReturned == "parse_checkstyle_log" \in returned /\ style_log # <<>>

\* A.java:1: a [b] c [Rule]
TextBracketInMessage ==
    <<"A.java", ":", "1", ":", " ", "a", " ", "[", "b", "]", " ", "c", " ",
      "[", "Rule", "]">>
\* A.java:3: msg[Rule]
TextRuleNoBlank == <<"A.java", ":", "3", ":", " ", "msg", "[", "Rule", "]">>

\* Style transcripts whose [ERROR] lines end with a [rule] tag
StyleRuleLines ==
    { FileMarker("A.java"), SummaryBanner,
      ErrorLine(TextLineRule), ErrorLine(TextBracketInMessage),
      ErrorLine(TextRuleNoBlank) }

StyleRuleLogs == SeqsUpTo(StyleRuleLines, MaxStyleLines)

InitStyleRule ==
    /\ style_log \in StyleRuleLogs
    /\ checkstyle_data = None
    /\ build_log = <<>>
    /\ build_data = None
    /\ returned = {}
    /\ ProgramIdle

NextStyleRule == ParseCheckstyleLog

SpecStyleRule == InitStyleRule /\ [][NextStyleRule]_vars

\* Style transcripts with "Configuration:" lines
ConfigPaths ==
    { <<"checkstyle", "/", "sun_checks", ".xml">>,
      <<"google_checks", ".xml">>,
      <<"SUN_CHECKS", ".xml">>,
      <<"google_checks", "/", "sun_checks", ".xml">>,
      <<"custom", ".xml">> }

StyleConfigLines == {ConfigLine(path) : path \in ConfigPaths} \cup {SummaryBanner}

StyleConfigLogs == SeqsUpTo(StyleConfigLines, MaxStyleLines)

InitStyleConfig ==
    /\ style_log \in StyleConfigLogs
    /\ checkstyle_data = None
    /\ build_log = <<>>
    /\ build_data = None
    /\ returned = {}
    /\ ProgramIdle

NextStyleConfig == ParseCheckstyleLog

SpecStyleConfig == InitStyleConfig /\ [][NextStyleConfig]_vars
----------------------------------------------------------------------------
(* CheckstyleRunner *)

MaxCalls == 2

\* <f>:3:5: msg [Rule]
ViolationText(f) == <<f, ":", "3", ":", "5", ":", " ", "msg", " ", "[", "Rule", "]">>
\* <f>:7: Catching 'Error' is not allowed. [IllegalCatch]
WarningText(f) == <<f, ":", "7", ":", " ", "Catching 'Error'", " ", "[", "IllegalCatch", "]">>

\* what the checkstyle process can print for file f: stdout and stderr
CheckstyleResults(f) ==
    { [stdout |-> <<AuditLine, AuditLine>>, stderr |-> <<>>],
      [stdout |-> <<AuditLine, ErrorLine(ViolationText(f)), AuditLine>>,
       stderr |-> <<EndsLine(1)>>],
      [stdout |-> <<AuditLine, WarnLine(WarningText(f)), AuditLine>>, stderr |-> <<>>],
      [stdout |-> <<>>, stderr |-> <<ExceptionLine>>] }

\* "CheckstyleException" in text
HasCheckstyleException(text) == \E x \in 1..Len(text) : text[x].k = "exception"

\* "error" in text.lower()
HasErrorWord(text) ==
    \E x \in 1..Len(text) : text[x].k \in {"error", "errbare", "ends", "warn"}

\* the lines of text with ":" in line and "[ERROR]" in line
RECURSIVE violation_lines(_)
violation_lines(text) ==
    IF text = <<>> THEN <<>>
    ELSE (IF /\ Head(text).k = "error"
             /\ \E x \in 1..Len(Head(text).txt) : Head(text).txt[x] = ":"
          THEN <<Head(text)>> ELSE <<>>) \o violation_lines(Tail(text))

\* "for i, java_file in enumerate(java_files):" from file i on; acc holds
\* the report text and all_violations, violations_count, files_with_violations
RECURSIVE check_files(_, _, _, _)
check_files(fs, results, i, acc) ==
    IF i > Len(fs) THEN acc
    ELSE LET text_result == results[fs[i]]
             report == acc.report \o <<FileMarker(fs[i])>>
                           \o text_result.stdout \o text_result.stderr
             in_stderr == /\ HasErrorWord(text_result.stderr)
                          /\ ~HasCheckstyleException(text_result.stderr)
             in_stdout == HasErrorWord(text_result.stdout)
             file_violations ==
                 (IF in_stderr THEN violation_lines(text_result.stderr) ELSE <<>>)
                 \o (IF in_stdout THEN violation_lines(text_result.stdout) ELSE <<>>)
             file_has_violations == in_stderr \/ in_stdout
         IN  IF HasCheckstyleException(text_result.stderr)
             THEN check_files(fs, results, i + 1, [acc EXCEPT !.report = report])
             ELSE IF file_has_violations
             THEN check_files(fs, results, i + 1,
                      [report |-> report,
                       all_violations |-> acc.all_violations \o file_violations,
                       violations_count |-> acc.violations_count + Len(file_violations),
                       files_with_violations |-> acc.files_with_violations + 1])
             ELSE check_files(fs, results, i + 1, [acc EXCEPT !.report = report])

DefaultConfigPath == <<"checkstyle", "/", "sun_checks", ".xml">>
CustomConfigPath == <<"custom", ".xml">>

\* checkstyle_config(): the state of checkstyle/sun_checks.xml after the
\* call and the exception that leaves it; an absent file is created by
\* open(config_file, 'w') and f.write(config_file) then raises TypeError,
\* its argument being a Path
checkstyle_config(cfg) ==
    IF cfg # "absent" THEN [config_file |-> cfg, raised |-> "none"]
    ELSE [config_file |-> "empty", raised |-> "TypeError"]

\* run_checkstyle(custom_config): the object, the files and the outcome
\* after the call.  jar_ok: download_checkstyle returned a path; custom:
\* custom_config is given and exists
run_checkstyle(self, cfg, report, jar_ok, custom, fs, results) ==
    LET unchanged == [runner |-> self, config_file |-> cfg, txt_report |-> report,
                      ret |-> FALSE, raised |-> "none"]
        config == IF custom THEN [config_file |-> cfg, raised |-> "none"]
                  ELSE checkstyle_config(cfg)
        config_path == IF custom THEN CustomConfigPath ELSE DefaultConfigPath
        checked == check_files(fs, results, 1,
                       [report |-> <<ReportHeader, ReportDate, ConfigLine(config_path)>>,
                        all_violations |-> <<>>, violations_count |-> 0,
                        files_with_violations |-> 0])
    IN  IF ~jar_ok THEN unchanged
        ELSE IF config.raised # "none"
        THEN [unchanged EXCEPT !.config_file = config.config_file,
                               !.raised = config.raised]
        ELSE IF fs = <<>> THEN unchanged
        ELSE IF checked.violations_count > 0
        THEN [runner |-> [violations |-> checked.all_violations,
                          violations_count |-> checked.violations_count,
                          files_with_violations |-> checked.files_with_violations],
              config_file |-> cfg,
              txt_report |-> checked.report
                  \o <<SummaryBanner,
                       TotalLine(checked.violations_count, checked.files_with_violations)>>,
              ret |-> FALSE, raised |-> "none"]
        ELSE [runner |-> self,
              config_file |-> cfg,
              txt_report |-> checked.report \o <<SummaryBanner, NoErrorsLine>>,
              ret |-> TRUE, raised |-> "none"]

\* get_violations_summary()
get_violations_summary(self) ==
    [violations |-> self.violations, count |-> self.violations_count,
     files_with_violations |-> self.files_with_violations]

CheckstyleBehaviours(fs) ==
    {r \in [{fs[x] : x \in 1..Len(fs)} -> UNION {CheckstyleResults(f) : f \in JavaFileNames}] :
        \A x \in 1..Len(fs) : r[fs[x]] \in CheckstyleResults(fs[x])}

\* a CheckstyleRunner for a repository; the working directory may already
\* hold a configuration file
InitCheckstyle ==
    /\ ParserIdle
    /\ returned = {}
    /\ java_files \in FileLists(MaxJavaFiles)
    /\ javac = <<>>
    /\ log_file = NoFile
    /\ build_success = FALSE
    /\ runner = [violations |-> <<>>, violations_count |-> 0,
                 files_with_violations |-> 0]
    /\ config_file \in {"absent", "written"}
    /\ txt_report = NoFile
    /\ checkstyle_success = FALSE
    /\ CallIdle
    /\ ConfigIdle
    /\ RepoIdle
    /\ exit_status = NotExited
    /\ RunIdle

\* one call run_checkstyle(custom_config)
RunCheckstyle ==
    /\ calls < MaxCalls
    /\ \E jar_ok \in BOOLEAN, custom \in BOOLEAN,
          results \in CheckstyleBehaviours(java_files) :
          LET out == run_checkstyle(runner, config_file, txt_report,
                                    jar_ok, custom, java_files, results)
          IN  /\ runner' = out.runner
              /\ config_file' = out.config_file
              /\ txt_report' = out.txt_report
              /\ checkstyle_success' = IF out.raised = "none" THEN out.ret
                                       ELSE checkstyle_success
              /\ raised' = out.raised
    /\ last_call' = "run_checkstyle"
    /\ calls' = calls + 1
    /\ returned' = returned \cup {"run_checkstyle"}
    /\ UNCHANGED <<parser_vars, build_vars, config_vars, repo_vars, exit_status, run_vars>>

\* one call checkstyle_config()
CheckstyleConfig ==
    /\ calls < MaxCalls
    /\ config_file' = checkstyle_config(config_file).config_file
    /\ raised' = checkstyle_config(config_file).raised
    /\ last_call' = "checkstyle_config"
    /\ calls' = calls + 1
    /\ returned' = returned \cup {"checkstyle_config"}
    /\ UNCHANGED <<parser_vars, build_vars, runner, txt_report, checkstyle_success,
                   config_vars, repo_vars, exit_status, run_vars>>

NextCheckstyle == RunCheckstyle \/ CheckstyleConfig

SpecCheckstyle == InitCheckstyle /\ [][NextCheckstyle]_vars
----------------------------------------------------------------------------
(* ConfigManager.parse_arguments.  The Python value None of an option is  *)
(* the string "None"; a YAML key that is absent is "absent".               *)

\* the command lines: --config names no file, a readable YAML file or an
\* unreadable one; the other options are given or not
CommandLines ==
    [config : {"None", "file", "unreadable"},
     gitlab_url : {"None", "cli-url"},
     token : {"None", "cli-token"},
     project_id : {"None", "cli-project"},
     branch : {"None", "cli-branch"},
     fail_on_issues : BOOLEAN]

\* the contents of the YAML file
ConfigFiles ==
    [gitlab_url : {"absent", "file-url"},
     token : {"absent", "file-token"},
     project_id : {"absent", "file-project"},
     branch : {"absent", "file-branch"},
     fail_on_issues : {"absent", "true"}]

\* merge_config_with_args(args, config)
merge_config_with_args(a, config) ==
    [a EXCEPT
        !.gitlab_url = IF a.gitlab_url = "None" /\ config.gitlab_url # "absent"
                       THEN config.gitlab_url ELSE @,
        !.token = IF a.token = "None" /\ config.token # "absent"
                  THEN config.token ELSE @,
        !.project_id = IF a.project_id = "None" /\ config.project_id # "absent"
                       THEN config.project_id ELSE @,
        !.branch = IF a.branch = "None" /\ config.branch # "absent" THEN config.branch
                   ELSE IF a.branch = "None" THEN "main"
                   ELSE @,
        !.fail_on_issues = IF ~a.fail_on_issues /\ config.fail_on_issues # "absent"
                           THEN TRUE ELSE @]

\* validate_required_args(args): TRUE when it returns, FALSE when it exits
validate_required_args(a) ==
    a.gitlab_url # "None" /\ a.token # "None" /\ a.project_id # "None"

\* parse_arguments(): the namespace returned, or the process exit
parse_arguments(line, config) ==
    LET parsed == [config |-> line.config, gitlab_url |-> line.gitlab_url,
                   token |-> line.token, project_id |-> line.project_id,
                   branch |-> line.branch, fail_on_issues |-> line.fail_on_issues]
        merged == IF line.config = "file" THEN merge_config_with_args(parsed, config)
                  ELSE parsed
    IN  IF line.config = "unreadable" THEN [exit |-> 1, args |-> None]
        ELSE IF ~validate_required_args(merged) THEN [exit |-> 1, args |-> None]
        ELSE [exit |-> NotExited, args |-> merged]

InitConfig ==
    /\ ParserIdle
    /\ returned = {}
    /\ BuildIdle /\ RunnerIdle /\ CallIdle /\ RepoIdle
    /\ argv \in [line : CommandLines, file : ConfigFiles]
    /\ args = None
    /\ exit_status = NotExited
    /\ RunIdle

\* ConfigManager(): one call parse_arguments()
ParseArguments ==
    /\ "parse_arguments" \notin returned
    /\ exit_status = NotExited
    /\ args' = parse_arguments(argv.line, argv.file).args
    /\ exit_status' = parse_arguments(argv.line, argv.file).exit
    /\ returned' = returned \cup
           (IF parse_arguments(argv.line, argv.file).exit = NotExited
            THEN {"parse_arguments"} ELSE {})
    /\ UNCHANGED <<parser_vars, build_vars, runner_vars, call_vars, repo_vars, argv,
                   run_vars>>

NextConfig == ParseArguments

SpecConfig == InitConfig /\ [][NextConfig]_vars
----------------------------------------------------------------------------
(* RepositoryManager.clone_repository *)

MaxClones == 3

\* <workspace>/<project_id>/<project_hw>
ClonePaths == {"ws/g/hw1", "ws/g/hw2", "ws/g/hw3"}

\* clone_repository for clone_path, git_ok telling whether `git clone`
\* exits with status 0: the directories after the call, what the call did
\* and the exit status of the process
clone_repository(existing, clone_path, git_ok) ==
    IF clone_path \notin existing
    THEN IF git_ok
         THEN [dirs |-> existing \cup {clone_path}, did |-> "cloned", exit |-> NotExited]
         ELSE [dirs |-> existing \cup {clone_path}, did |-> "clone failed", exit |-> 1]
    ELSE [dirs |-> existing, did |-> "already exists", exit |-> NotExited]

InitClone ==
    /\ ParserIdle
    /\ returned = {}
    /\ BuildIdle /\ RunnerIdle /\ CallIdle /\ ConfigIdle
    /\ RepoIdle
    /\ exit_status = NotExited
    /\ RunIdle

\* one run of the program up to the end of clone_repository; a run that
\* exited is followed by a new process on the same workspace
CloneRepository ==
    /\ Len(clone_log) < MaxClones
    /\ \E clone_path \in ClonePaths, git_ok \in BOOLEAN :
          LET out == clone_repository(dirs, clone_path, git_ok)
          IN  /\ dirs' = out.dirs
              /\ cloned' = IF out.did = "cloned" THEN cloned \cup {clone_path} ELSE cloned
              /\ clone_log' = Append(clone_log, [path |-> clone_path, did |-> out.did])
              /\ exit_status' = out.exit
    /\ returned' = returned \cup {"clone_repository"}
    /\ UNCHANGED <<parser_vars, build_vars, runner_vars, call_vars, config_vars,
                   run_vars>>

NextClone == CloneRepository

SpecClone == InitClone /\ [][NextClone]_vars
----------------------------------------------------------------------------
(* The process started through run_checker: __main__ calls                *)
(* run_quality_check, which runs JavaProjectChecker.run (clone, build      *)
(* check, Checkstyle) and then writes the JSON report.                     *)

MaxRunFiles == 2

RunFileNames == {"A.java", "B.java"}

\* the repositories checked: the files found and what javac does for each
RunFileLists ==
    {fs \in SeqsUpTo(RunFileNames, MaxRunFiles) :
        \A x, y \in 1..Len(fs) : x # y => fs[x] # fs[y]}

JavacFor(fs) ==
    {r \in [{fs[x] : x \in 1..Len(fs)} -> UNION {JavacResults(f) : f \in RunFileNames}] :
        \A x \in 1..Len(fs) : r[fs[x]] \in JavacResults(fs[x])}

\* the namespaces parse_arguments returns for a command line that gives
\* every option and no --config file, with and without --fail-on-issues
RunArgs ==
    {parse_arguments(line, file).args :
        line \in {l \in CommandLines : /\ l.config = "None"
                                       /\ l.branch = "cli-branch"
                                       /\ validate_required_args(l)},
        file \in {f \in ConfigFiles : \A key \in DOMAIN f : f[key] = "absent"}}

RunClonePath == "ws/g/hw1"

\* a report section that was not written
Absent == [absent |-> TRUE]

\* "if not self.build_success: if self.args.fail_on_issues: sys.exit(1)",
\* with the exit left out
exits_on_build_failure_Never(build_ok, fail_on_issues) == FALSE

\* "if not self.build_success: if self.args.fail_on_issues: sys.exit(1)"
exits_on_build_failure(build_ok, fail_on_issues) == ~build_ok /\ fail_on_issues

\* "if self.args.fail_on_issues and not self.quality_success: sys.exit(1)"
exits_on_quality_issues(quality_ok, fail_on_issues) == fail_on_issues /\ ~quality_ok

\* the exit_code computed by run_quality_check
exit_code(build_ok, quality_ok, fail_on_issues) ==
    IF ~build_ok /\ fail_on_issues THEN 1
    ELSE IF ~quality_ok /\ fail_on_issues THEN 1
    ELSE 0

InitRun ==
    /\ ParserIdle
    /\ returned = {}
    /\ java_files \in RunFileLists
    /\ javac \in JavacFor(java_files)
    /\ log_file = NoFile
    /\ build_success = FALSE
    /\ runner = [violations |-> <<>>, violations_count |-> 0,
                 files_with_violations |-> 0]
    /\ config_file \in {"absent", "written"}
    /\ txt_report = NoFile
    /\ checkstyle_success = FALSE
    /\ CallIdle
    /\ argv = None
    /\ args \in RunArgs
    /\ RepoIdle
    /\ exit_status = NotExited
    /\ pc = "clone"
    /\ quality_success = FALSE
    /\ json_data = None
    /\ main_results = None
    /\ trace = <<>>

\* run(): self.repo_manager.clone_repository(...)
RunClone ==
    /\ pc = "clone"
    /\ \E git_ok \in BOOLEAN :
          LET out == clone_repository(dirs, RunClonePath, git_ok)
          IN  /\ dirs' = out.dirs
              /\ cloned' = IF out.did = "cloned" THEN cloned \cup {RunClonePath} ELSE cloned
              /\ clone_log' = Append(clone_log, [path |-> RunClonePath, did |-> out.did])
              /\ exit_status' = out.exit
              /\ pc' = IF out.exit = NotExited THEN "build" ELSE "exited"
    /\ returned' = returned \cup {"clone_repository"}
    /\ UNCHANGED <<parser_vars, build_vars, runner_vars, call_vars, config_vars,
                   quality_success, json_data, main_results, trace>>

\* run(): the build check and the handling of a build failure
RunBuildCheck ==
    /\ pc = "build"
    /\ log_file' = check_build(java_files, javac).log
    /\ build_success' = check_build(java_files, javac).ret
    /\ quality_success' = build_success'
    /\ checkstyle_success' = TRUE
    /\ trace' = Append(trace, "check_build")
    /\ returned' = returned \cup {"check_build"}
    /\ IF exits_on_build_failure(build_success', args.fail_on_issues)
       THEN exit_status' = 1 /\ pc' = "exited"
       ELSE exit_status' = exit_status /\ pc' = "checkstyle"
    /\ UNCHANGED <<parser_vars, java_files, javac, runner, config_file, txt_report,
                   call_vars, config_vars, repo_vars, json_data, main_results>>

\* run(): Checkstyle, the summary and the exit on quality issues; an
\* exception that leaves run_checkstyle ends the process with status 1
RunCheckstyleCheck ==
    /\ pc = "checkstyle"
    /\ \E jar_ok \in BOOLEAN, custom \in BOOLEAN,
          style \in CheckstyleBehaviours(java_files) :
          LET out == run_checkstyle(runner, config_file, txt_report,
                                    jar_ok, custom, java_files, style)
              quality_ok == quality_success /\ out.ret
          IN  /\ runner' = out.runner
              /\ config_file' = out.config_file
              /\ txt_report' = out.txt_report
              /\ raised' = out.raised
              /\ IF out.raised # "none"
                 THEN /\ exit_status' = 1
                      /\ pc' = "exited"
                      /\ UNCHANGED <<checkstyle_success, quality_success>>
                 ELSE /\ checkstyle_success' = out.ret
                      /\ quality_success' = quality_ok
                      /\ IF exits_on_quality_issues(quality_ok, args.fail_on_issues)
                         THEN exit_status' = 1 /\ pc' = "exited"
                         ELSE exit_status' = exit_status /\ pc' = "report"
    /\ last_call' = "run_checkstyle"
    /\ calls' = calls + 1
    /\ trace' = Append(trace, "run_checkstyle")
    /\ returned' = returned \cup (IF raised' = "none" THEN {"run_checkstyle"} ELSE {})
    /\ UNCHANGED <<parser_vars, build_vars, config_vars, repo_vars, json_data, main_results>>

\* run_quality_check after checker.run() has returned: parse the logs that
\* exist, write the JSON report, compute exit_code
WriteReport ==
    /\ pc = "report"
    /\ build_log' = IF log_file # NoFile THEN log_file ELSE build_log
    /\ build_data' = IF log_file # NoFile THEN parse_build_log(log_file) ELSE build_data
    /\ style_log' = IF txt_report # NoFile THEN txt_report ELSE style_log
    /\ checkstyle_data' = IF txt_report # NoFile THEN parse_checkstyle_log(txt_report)
                          ELSE checkstyle_data
    /\ json_data' =
           [results |-> [build_success |-> build_success,
                         checkstyle_success |-> checkstyle_success,
                         overall_quality_success |-> quality_success],
            logs |-> [build |-> IF log_file # NoFile THEN build_data' ELSE Absent,
                      checkstyle |-> IF txt_report # NoFile THEN checkstyle_data'
                                     ELSE Absent]]
    /\ main_results' = [build_success |-> build_success,
                   checkstyle_success |-> checkstyle_success,
                   quality_success |-> quality_success,
                   fail_on_issues |-> args.fail_on_issues,
                   exit_code |-> exit_code(build_success, quality_success,
                                           args.fail_on_issues)]
    /\ pc' = "exit"
    /\ returned' = returned \cup {"run_quality_check"}
    /\ UNCHANGED <<build_vars, runner_vars, call_vars, config_vars, repo_vars,
                   exit_status, quality_success, trace>>

\* __main__: sys.exit(results['exit_code'])
SysExit ==
    /\ pc = "exit"
    /\ exit_status' = main_results.exit_code
    /\ pc' = "exited"
    /\ UNCHANGED <<parser_vars, returned, build_vars, runner_vars, call_vars,
                   config_vars, repo_vars, quality_success, json_data, main_results, trace>>

NextRun == RunClone \/ RunBuildCheck \/ RunCheckstyleCheck \/ WriteReport \/ SysExit

SpecRun == InitRun /\ [][NextRun]_vars
----------------------------------------------------------------------------
(* Properties of parse_build_log, checked under SpecBuild *)

\* C1: for every non-empty build log, the returned record has errors.count
\* equal to the number of entries of errors.details and summary.error_count
\* equal to errors.count, whichever pass (per failed file, global fallback)
\* added the entries.
C1_ErrorCountInvariant ==
    BuildReturned =>
        /\ build_data.errors.count = Len(build_data.errors.details)
        /\ build_data.summary.error_count = build_data.errors.count

\* a log whose entries were all added by the global fallback pass
C1_Witness ==
    /\ BuildReturned
    /\ HasCompilationFailed(build_log)
    /\ \A x \in 1..Len(failed_compilation(build_log)) :
           error_section(build_log, failed_compilation(build_log)[x])[1] = 0
    /\ Len(build_data.errors.details) >= 1

C9_SuccessRateRange ==
    BuildReturned =>
        /\ 0 <= build_data.summary.success_rate.num
        /\ build_data.summary.success_rate.num
               <= 100 * build_data.summary.success_rate.den
        /\ (\A i \in 1..Len(build_log) :
                build_log[i].k = "found" => build_log[i].n = 0)
               => build_data.summary.success_rate.num = 0

\* the compilation blocks as C10 describes them: a Compiling: marker, its
\* Running: line, and as captured output the lines from there up to the
\* next Compiling: marker, the next failure banner, or the end of the text
RECURSIVE C10_Blocks(_, _)
C10_Blocks(log, pos) ==
    LET i == FirstFrom(log, pos, {"compiling"})
        j == IF i = 0 THEN 0 ELSE FirstFrom(log, i + 1, {"running"})
        t == IF j = 0 THEN 0 ELSE FirstFrom(log, j + 1, {"compiling", "failed"})
        e == IF t = 0 THEN Len(log) ELSE t - 1
    IN  IF j = 0 THEN <<>>
        ELSE <<SubSeq(log, j + 1, e)>> \o C10_Blocks(log, e + 1)

\* C10: a block whose captured compiler output contains "error" or
\* "exception" (case-insensitively) yields success = false with that output
\* stored; a block whose output contains neither yields success = true with
\* empty output.
C10_BlockClassification ==
    BuildReturned =>
        LET blocks == C10_Blocks(build_log, 1)
            results == build_data.compilation.file_results
        IN  \A x \in 1..Len(results) :
                x <= Len(blocks) =>
                    IF \E y \in 1..Len(blocks[x]) : ContainsErrorWord(blocks[x][y])
                    THEN results[x].success = FALSE /\ results[x].output = blocks[x]
                    ELSE results[x].success = TRUE /\ results[x].output = <<>>

\* C15: when the source text is empty or absent, parse_build_log returns an
\* empty/default structure: a record with the sections of a normal result,
\* counts at 0, empty detail lists and a summary.
C15_EmptyInputDefaultRecord ==
    ("parse_build_log" \in returned /\ build_log = <<>>)
        => /\ build_data.none = FALSE
           /\ build_data.errors = [count |-> 0, details |-> <<>>]
           /\ build_data.project_structure = [total_files |-> 0, files |-> <<>>]
           /\ build_data.summary.error_count = 0

\* the "- <relpath>" lines that follow the first "Found <n> Java files to
\* compile:" line, up to the next Compiling: marker or the end of the text
C16_Listed(log) ==
    LET i == FirstFrom(log, 1, {"found"})
        c == IF i = 0 THEN 0 ELSE FirstFrom(log, i + 1, {"compiling"})
    IN  IF i = 0 THEN <<>>
        ELSE SelectSeq(SubSeq(log, i + 1, IF c = 0 THEN Len(log) ELSE c - 1),
                       LAMBDA l : l.k = "item")

\* seq with every entry after its first occurrence removed
RECURSIVE C16_FirstSeen(_)
C16_FirstSeen(seq) ==
    IF seq = <<>> THEN <<>>
    ELSE LET init == C16_FirstSeen(SubSeq(seq, 1, Len(seq) - 1))
             last == seq[Len(seq)]
         IN  IF \E x \in 1..Len(init) : init[x] = last THEN init
             ELSE Append(init, last)

\* C16: the file inventory has no duplicate path: a path listed more than
\* once appears once, at the position of its first appearance, and the
\* entries keep first-seen order.
C16_InventoryDeduplicated ==
    BuildReturned =>
        build_data.project_structure.files = C16_FirstSeen(C16_Listed(build_log))

\* the lines rest are one Compiling:/Running: block per listed file, in the
\* order of the list, each with output that holds no error text
RECURSIVE C20_BlocksFor(_, _)
C20_BlocksFor(rest, items) ==
    IF items = <<>> THEN rest = <<>>
    ELSE /\ Len(rest) >= 2
         /\ rest[1] = CompilingLine(Head(items).f)
         /\ rest[2] = RunningLine(Head(items).f)
         /\ LET after == SubSeq(rest, 3, Len(rest))
                c == FirstFrom(after, 1, {"compiling"})
                e == IF c = 0 THEN Len(after) ELSE c - 1
            IN  /\ \A x \in 1..e : after[x].k = "note"
                /\ C20_BlocksFor(SubSeq(after, e + 1, Len(after)), Tail(items))

\* the log declares n >= 1 files, lists n files, holds one clean block per
\* listed file and ends with the success banner
C20_CleanBuild(log) ==
    /\ Len(log) >= 2
    /\ log[1].k = "found"
    /\ log[1].n >= 1
    /\ Len(log) >= 2 + log[1].n
    /\ \A x \in 2..1 + log[1].n : log[x].k = "item"
    /\ log[Len(log)] = SuccessLine
    /\ C20_BlocksFor(SubSeq(log, 2 + log[1].n, Len(log) - 1),
                     SubSeq(log, 2, 1 + log[1].n))

\* C20: a build log that declares n files, lists them, contains one
\* Compiling:/Running: block per listed file with no error text and ends
\* with the success banner is parsed to status SUCCESS, total_files = n and
\* success_rate = 100, for every n >= 1.
C20_CleanBuildIsFullSuccess ==
    (BuildReturned /\ C20_CleanBuild(build_log))
        => /\ build_data.summary.status = "SUCCESS"
           /\ build_data.project_structure.total_files = build_log[1].n
           /\ build_data.summary.success_rate.num
                  = 100 * build_data.summary.success_rate.den

\* a parsed clean build of two files
C20_Witness ==
    /\ BuildReturned
    /\ C20_CleanBuild(build_log)
    /\ build_log[1].n = 2

----------------------------------------------------------------------------
(* Properties of parse_build_log, checked under SpecBuildErr *)

\* the Compiling: markers of the transcript, in order
C11_Markers(log) == SelectSeq(log, LAMBDA l : l.k = "compiling")

\* C11: parse_build_log yields exactly one entry of compilation.file_results
\* and one of compilation.commands per Compiling: marker, in transcript
\* order, with file equal to the marker's file, also for a marker that is
\* not followed by its own Running: line.
C11_OneResultPerMarker ==
    BuildReturned =>
        LET markers == C11_Markers(build_log)
            results == build_data.compilation.file_results
            cmds == build_data.compilation.commands
        IN  /\ Len(results) = Len(markers)
            /\ Len(cmds) = Len(markers)
            /\ \A x \in 1..Len(markers) :
                   results[x].file = markers[x].f /\ cmds[x].file = markers[x].f

\* C12: when some failure banner has no error block that can be located,
\* the global scan runs, so every "<path>:<line>: error: <message>" line of
\* the transcript appears in errors.details, also when another failed file
\* did get its block located.
C12_NoFailureLost ==
    (/\ BuildReturned
     /\ \E b \in 1..Len(build_log) :
            /\ build_log[b].k = "failed"
            /\ error_section(build_log, build_log[b].f) = <<0, 0>>)
        => \A i \in 1..Len(build_log) :
               build_log[i].k = "errline"
                   => \E x \in 1..Len(build_data.errors.details) :
                          LET d == build_data.errors.details[x]
                          IN  /\ d.file = build_log[i].f
                              /\ d.line = build_log[i].n
                              /\ d.message = build_log[i].msg

\* the lines i..i+2 lie in the error block located for some failed file
C13_InLocatedBlock(log, i) ==
    \E b \in 1..Len(log) :
        /\ log[b].k = "failed"
        /\ re_compiles(log[b].f)
        /\ error_section(log, log[b].f)[1] # 0
        /\ error_section(log, log[b].f)[1] <= i
        /\ i + 2 <= error_section(log, log[b].f)[2]

\* no failure banner has an error block that can be located, so that the
\* global pass runs
C13_GlobalPassRuns(log) ==
    /\ \E b \in 1..Len(log) : log[b].k = "failed"
    /\ \A b \in 1..Len(log) :
           log[b].k = "failed" => error_section(log, log[b].f) = <<0, 0>>

\* C13: for an error line followed by a source line and a caret line, in the
\* block of a failed file (per-file pass) or in a transcript scanned by the
\* global pass, one error detail has the line's path, line number and
\* message and column = 1 + the number of blanks before the caret of the
\* error's own caret line, also for transcripts holding several errors.
C13_ColumnFromOwnCaret ==
    BuildReturned =>
        \A i \in 1..Len(build_log) - 2 :
            (/\ build_log[i].k = "errline"
             /\ build_log[i + 1].k = "src"
             /\ build_log[i + 2].k = "caret"
             /\ \/ C13_InLocatedBlock(build_log, i)
                \/ C13_GlobalPassRuns(build_log))
                => \E x \in 1..Len(build_data.errors.details) :
                       LET d == build_data.errors.details[x]
                       IN  /\ d.file = build_log[i].f
                           /\ d.line = build_log[i].n
                           /\ d.message = build_log[i].msg
                           /\ d.column = build_log[i + 2].n + 1

\* C14: parsing never fails fatally: parse_build_log returns a value and
\* raises no exception, whatever text follows "ERROR Compilation failed for "
\* on a banner line.
C14_NeverRaises == "re.error" \notin returned

----------------------------------------------------------------------------
(* Properties of parse_checkstyle_log, checked under SpecStyle *)

\* line x lies after a Summary banner
InSummary(log, x) == \E u \in 1..x - 1 : log[u].k = "summary"

\* the Summary section holds "No Checkstyle errors found"
NoErrorsInSummary(log) ==
    \E x \in 1..Len(log) : log[x].k = "noerrors" /\ InSummary(log, x)

\* the "Total:" banners of the Summary section
TotalsInSummary(log) ==
    {x \in 1..Len(log) : log[x].k = "total" /\ InSummary(log, x)}

\* C2: for every non-empty style report, the returned record has
\* violations.count equal to the number of entries of violations.details,
\* whichever pattern or the unmatched branch produced each entry.
C2_ViolationCountInvariant ==
    StyleReturned =>
        checkstyle_data.violations.count = Len(checkstyle_data.violations.details)

\* a report with an entry of the unmatched branch and an entry of a pattern
C2_Witness ==
    /\ StyleReturned
    /\ \E x \in 1..Len(checkstyle_data.violations.details) :
           checkstyle_data.violations.details[x].rule = Missing
    /\ \E x \in 1..Len(checkstyle_data.violations.details) :
           checkstyle_data.violations.details[x].line # NoInt

\* the lines that carry the [ERROR] marker and lie inside a file block: after
\* a "--- File:" marker, with no Summary banner in between
C3_MarkedLines(log) ==
    {x \in 1..Len(log) :
        /\ log[x].k \in {"error", "errbare"}
        /\ \E i \in 1..x - 1 :
              /\ log[i].k = "file"
              /\ \A y \in i + 1..x - 1 : log[y].k # "summary"}

\* C3: each line that carries the [ERROR] marker and lies inside a file block
\* produces exactly one entry of violations.details, whatever follows the
\* marker and however the block is terminated (next marker, Summary banner,
\* end of text).
C3_EveryMarkedLineCounted ==
    StyleReturned =>
        Len(checkstyle_data.violations.details)
            = Cardinality(C3_MarkedLines(style_log))

\* C4: an [ERROR] line that matches both pattern 2 and pattern 3 is resolved
\* via pattern 2: its diagnostic has the line's path, line, column, message
\* and rule.
C4_Pattern2BeforePattern3 ==
    StyleReturned =>
        \A x \in 1..Len(checkstyle_data.violations.details) :
            LET d == checkstyle_data.violations.details[x]
            IN  (pattern2(d.raw_message) # 0 /\ pattern3(d.raw_message) # 0)
                    => d = violation2(d.raw_message)

\* C5: when the transcript has neither "No Checkstyle errors found" in its
\* Summary section nor a "Total:" banner, with or without a Summary banner,
\* summary.total_violations is the number of collected diagnostics and
\* summary.status is ISSUES FOUND if that number is > 0 and PASSED otherwise.
C5_SummaryFromDiagnostics ==
    (/\ StyleReturned
     /\ ~NoErrorsInSummary(style_log)
     /\ \A x \in 1..Len(style_log) : style_log[x].k # "total")
        => /\ checkstyle_data.summary.total_violations
                  = Len(checkstyle_data.violations.details)
           /\ checkstyle_data.summary.status
                  = IF Len(checkstyle_data.violations.details) > 0
                    THEN "ISSUES FOUND" ELSE "PASSED"

\* C6: when the Summary section does not contain "No Checkstyle errors
\* found" and contains "Total: <N> style violations in <M> files",
\* summary.total_violations = N and summary.files_with_violations_count = M,
\* whatever the number of collected diagnostics is.
C6_BannerWins ==
    (/\ StyleReturned
     /\ ~NoErrorsInSummary(style_log)
     /\ TotalsInSummary(style_log) # {})
        => LET banner == style_log[Min(TotalsInSummary(style_log))]
           IN  /\ checkstyle_data.summary.total_violations = banner.n
               /\ checkstyle_data.summary.files_with_violations_count = banner.m

\* a report whose banner disagrees with the diagnostics collected
C6_Witness ==
    /\ StyleReturned
    /\ ~NoErrorsInSummary(style_log)
    /\ TotalsInSummary(style_log) # {}
    /\ Len(checkstyle_data.violations.details) >= 1
    /\ checkstyle_data.summary.total_violations
           # Len(checkstyle_data.violations.details)

\* C7: when "No Checkstyle errors found" appears in the Summary section,
\* summary.status = PASSED and both summary counts are 0, even when the file
\* blocks contributed diagnostics and a "Total:" banner is also present.
C7_NoErrorsForcesPassed ==
    (StyleReturned /\ NoErrorsInSummary(style_log))
        => /\ checkstyle_data.summary.status = "PASSED"
           /\ checkstyle_data.summary.total_violations = 0
           /\ checkstyle_data.summary.files_with_violations_count = 0

\* a report with diagnostics, a "Total:" banner and "No Checkstyle errors
\* found" in its Summary section
C7_Witness ==
    /\ StyleReturned
    /\ NoErrorsInSummary(style_log)
    /\ TotalsInSummary(style_log) # {}
    /\ Len(checkstyle_data.violations.details) >= 1

\* the "--- File:" markers of the transcript, in order
C19_Markers(log) == SelectSeq(log, LAMBDA l : l.k = "file")

\* C19: every "--- File: <path> ---" marker yields exactly one entry of
\* analysis.files_checked, in transcript order, also when its block has no
\* diagnostics and however the block is terminated; total_files_checked is
\* the length of files_checked.
C19_EveryMarkerChecked ==
    StyleReturned =>
        LET markers == C19_Markers(style_log)
            checked == checkstyle_data.analysis.files_checked
        IN  /\ Len(checked) = Len(markers)
            /\ \A x \in 1..Len(markers) : checked[x] = <<markers[x].f>>
            /\ checkstyle_data.analysis.total_files_checked = Len(checked)

\* the checked files whose block contributed at least one diagnostic
C18_ContributingFiles(log) ==
    LET sections == file_sections(log, 1)
    IN  {sections[x].file_name :
            x \in {y \in 1..Len(sections) :
                     error_lines(sections[y].file_content, 1) # <<>>}}

\* C18: when status and counts are derived from the collected diagnostics
\* (no Summary banner), summary.files_with_violations_count is the number
\* of distinct checked files that contributed at least one diagnostic; two
\* diagnostics of one file at different lines or columns count once.
C18_DistinctFilesCounted ==
    (StyleReturned /\ \A x \in 1..Len(style_log) : style_log[x].k # "summary")
        => checkstyle_data.summary.files_with_violations_count
               = Cardinality(C18_ContributingFiles(style_log))

----------------------------------------------------------------------------
(* Properties of parse_checkstyle_log, checked under SpecStyleRule *)

\* index of the blank before the trailing "[rule]" tag of a text that ends
\* with "]", 0 if there is none after index g
C17_TagStart(t, g) ==
    LET A == {a \in g..Len(t) - 2 : t[a] = " " /\ t[a + 1] = "["}
    IN  IF t = <<>> \/ t[Len(t)] # "]" \/ A = {} THEN 0
        ELSE CHOOSE a \in A : \A b \in A : b <= a

\* C17: for every [ERROR] line of the form "path:line: message [rule]", the
\* diagnostic has file = path, line = line, rule = the content of the
\* trailing [rule] tag and message = the text between "path:line: " and
\* that tag, also when the message itself holds a blank followed by
\* bracketed text.
C17_TrailingRuleTag ==
    StyleReturned =>
        \A x \in 1..Len(checkstyle_data.violations.details) :
            LET d == checkstyle_data.violations.details[x]
                t == d.raw_message
                i == pattern3(t)
                g == LineTagAt(t, i)
                a == C17_TagStart(t, g)
            IN  (i # 0 /\ pattern2(t) = 0 /\ a # 0)
                    => /\ d.file = Strip(SubSeq(t, 1, i - 1))
                       /\ d.line = IntOf(SubSeq(t, i + 1, g - 3))
                       /\ d.rule = Strip(SubSeq(t, a + 2, Len(t) - 1))
                       /\ d.message = Strip(SubSeq(t, g, a - 1))

----------------------------------------------------------------------------
(* Properties of parse_checkstyle_log, checked under SpecStyleConfig *)

\* the configuration-file path of a transcript: the text of its first
\* "Configuration:" line, the empty text if it has none
C21_ConfigPath(log) ==
    LET C == {x \in 1..Len(log) : log[x].k = "config"}
    IN  IF C = {} THEN <<>> ELSE log[Min(C)].txt

\* C21: for every style transcript, configuration.ruleset is "Sun Style"
\* when the configuration-file path contains sun_checks, "Google Style" when
\* it contains google_checks (and not sun_checks), and "Custom" in every
\* other case.
C21_RulesetBySubstring ==
    StyleReturned =>
        LET path == C21_ConfigPath(style_log)
            words == {path[x] : x \in 1..Len(path)}
        IN  checkstyle_data.configuration.ruleset =
                CASE "sun_checks" \in words -> "Sun Style"
                  [] "sun_checks" \notin words /\ "google_checks" \in words
                        -> "Google Style"
                  [] OTHER -> "Custom"

\* C21 (amended): for a transcript with a "Configuration:" line, the
\* ruleset is decided on the lower-cased path of the first such line: "Sun
\* Style" when it contains sun_checks, "Google Style" when it contains
\* google_checks and not sun_checks, "Custom" otherwise; for a transcript
\* without a "Configuration:" line the ruleset is None.
C21_RulesetByLoweredSubstring ==
    StyleReturned =>
        LET path == C21_ConfigPath(style_log)
            words == {LowerToken(path[x]) : x \in 1..Len(path)}
            label == checkstyle_data.configuration.ruleset
        IN  IF \A x \in 1..Len(style_log) : style_log[x].k # "config"
            THEN label = "None"
            ELSE /\ "sun_checks" \in words => label = "Sun Style"
                 /\ ("sun_checks" \notin words /\ "google_checks" \in words)
                        => label = "Google Style"
                 /\ ("sun_checks" \notin words /\ "google_checks" \notin words)
                        => label = "Custom"

\* a transcript whose configuration path holds both names was labelled
C21_Witness ==
    /\ StyleReturned
    /\ C21_ConfigPath(style_log) = <<"google_checks", "/", "sun_checks", ".xml">>
    /\ checkstyle_data.configuration.ruleset = "Sun Style"

----------------------------------------------------------------------------
(* Properties of BuildChecker.check_build, checked under SpecCheckBuild *)

\* the last position of a non-empty set of positions
C28_Last(S) == CHOOSE x \in S : \A y \in S : x >= y

\* the positions of the lines of shape k in a text
C28_Lines(log, k) == {x \in 1..Len(log) : log[x].k = k}

\* C28: check_build stops at the first file whose javac exit status is
\* non-zero: the log it writes holds at most one "ERROR Compilation failed
\* for" banner, no "Compiling:" marker follows that banner, the success
\* banner and a failure banner never both appear, and check_build returns
\* True exactly when the success banner was written.
C28_StopsAtFirstFailure ==
    "check_build" \in returned =>
        LET failed == C28_Lines(log_file, "failed")
            compiling == C28_Lines(log_file, "compiling")
            success == C28_Lines(log_file, "success")
        IN  /\ Cardinality(failed) <= 1
            /\ \A b \in failed : \A c \in compiling : c < b
            /\ \A b \in failed : log_file[b].f = log_file[C28_Last(compiling)].f
            /\ ~(failed # {} /\ success # {})
            /\ build_success <=> success # {}

\* a build of several files whose first file failed has returned
C28_Witness ==
    /\ "check_build" \in returned
    /\ Len(java_files) >= 2
    /\ javac[java_files[1]].returncode # 0
    /\ javac[java_files[2]].returncode # 0
    /\ C28_Lines(log_file, "failed") # {}
    /\ ~build_success

----------------------------------------------------------------------------
(* Properties of CheckstyleRunner, checked under SpecCheckstyle *)

\* C27: checkstyle_config creates the configuration file when it is absent
\* and returns its path: in any sequence of calls no exception leaves
\* checkstyle_config or run_checkstyle, and after a call of checkstyle_config
\* the configuration file exists and is not empty.
C27_ConfigCreated ==
    /\ raised = "none"
    /\ last_call = "checkstyle_config" => config_file = "written"

\* C29: get_violations_summary describes the most recent run: after a run
\* that returned True it reports count = 0, files_with_violations = 0 and no
\* violations, whatever earlier runs on the same object found; and count is
\* always the length of the violations list.
C29_SummaryOfLatestRun ==
    LET summary == get_violations_summary(runner)
    IN  /\ summary.count = Len(summary.violations)
        /\ (last_call = "run_checkstyle" /\ raised = "none" /\ checkstyle_success)
               => /\ summary.count = 0
                  /\ summary.files_with_violations = 0
                  /\ summary.violations = <<>>

----------------------------------------------------------------------------
(* Properties of ConfigManager.parse_arguments, checked under SpecConfig *)

\* C26: the branch option defaults to main: after parse_arguments,
\* args.branch is main whenever no branch is given on the command line and
\* none in a configuration file, with and without a --config file; a branch
\* given on the command line is never replaced.
C26_BranchDefaultsToMain ==
    "parse_arguments" \in returned =>
        /\ (/\ argv.line.branch = "None"
            /\ (argv.line.config = "None" \/ argv.file.branch = "absent"))
               => args.branch = "main"
        /\ argv.line.branch # "None" => args.branch = argv.line.branch

----------------------------------------------------------------------------
(* Properties of RepositoryManager.clone_repository, checked under SpecClone *)

\* C30: clone_repository reports "Repository already exists" and returns the
\* clone path without cloning only when an earlier clone into that path
\* succeeded; after a failed clone attempt, a later call for the same
\* project attempts the clone again.
C30_ExistsOnlyAfterSuccessfulClone ==
    \A x \in 1..Len(clone_log) :
        clone_log[x].did = "already exists"
            => \E y \in 1..(x - 1) :
                   /\ clone_log[y].path = clone_log[x].path
                   /\ clone_log[y].did = "cloned"

----------------------------------------------------------------------------
(* Properties of the process started through run_checker, checked under   *)
(* SpecRun                                                                 *)

\* C23: in JavaProjectChecker.run the build check always runs first and
\* Checkstyle runs only after it has finished; when the build fails and
\* fail_on_issues is set the process exits with status 1 and Checkstyle is
\* never run; when the build fails and fail_on_issues is not set Checkstyle
\* is still run.
C23_BuildFirstThenCheckstyle ==
    LET style_ran == \E x \in 1..Len(trace) : trace[x] = "run_checkstyle"
        build_failed == "check_build" \in returned /\ ~build_success
    IN  /\ trace # <<>> => trace[1] = "check_build"
        /\ style_ran => "check_build" \in returned
        /\ (build_failed /\ args.fail_on_issues)
               => exit_status = 1 /\ ~style_ran
        /\ (pc = "exited" /\ build_failed /\ ~args.fail_on_issues) => style_ran

\* a run whose build failed without fail_on_issues went on to Checkstyle
C23_Witness ==
    /\ pc = "exited"
    /\ "check_build" \in returned
    /\ ~build_success
    /\ ~args.fail_on_issues
    /\ trace = <<"check_build", "run_checkstyle">>

\* C24: the process exits with status 1 exactly when fail_on_issues is set
\* and the build check or the Checkstyle check failed, and with status 0
\* otherwise; whenever run_quality_check returns, exit_code is 1 iff
\* fail_on_issues and not quality_success, and quality_success is
\* build_success and checkstyle_success.
C24_ExitStatus ==
    /\ (pc = "exited" /\ "check_build" \in returned)
           => /\ exit_status \in {0, 1}
              /\ exit_status = 1
                     <=> (args.fail_on_issues
                          /\ (~build_success \/ ~checkstyle_success))
    /\ main_results # None
           => /\ main_results.exit_code = 1
                     <=> (main_results.fail_on_issues /\ ~main_results.quality_success)
              /\ main_results.quality_success
                     <=> (main_results.build_success /\ main_results.checkstyle_success)

\* C25: the JSON report always includes the logs: a run whose build check
\* produced a build log ends with a JSON report that holds the parsed build
\* log, and the Checkstyle log is included whatever the build result and
\* the fail_on_issues setting.
C25_ReportIncludesLogs ==
    (pc = "exited" /\ log_file # NoFile)
        => /\ json_data # None
           /\ json_data.logs.build = parse_build_log(log_file)
           /\ txt_report # NoFile
                  => json_data.logs.checkstyle = parse_checkstyle_log(txt_report)

====
